---- MODULE Spec2Model ----
(***************************************************************************)
(* Model of the request pipeline of the Rust SDK wrapper                   *)
(* (sdk/wrappers/rust/src/lib.rs): Client::new, calculate_backoff,         *)
(* parse_error, do_request, the method shortcuts and paginate_cursor.      *)
(*                                                                         *)
(* Fixed-width integers are little-endian sequences of 16-bit limbs         *)
(* (u32 = 2 limbs, u64 = 4 limbs), so that values up to 2^64-1 and their    *)
(* overflow are computed exactly.  Strings that the code scans (header      *)
(* values, paths) are sequences of one-character strings.                   *)
(***************************************************************************)
EXTENDS Integers, Sequences, FiniteSets, TLC

VARIABLES
    overflow_checks, \* build profile: TRUE = arithmetic overflow panics (debug)
    client,          \* the Client built by Client::new (None before and on failure)
    pc,              \* position of the do_request future ("cancelled": dropped)
    req,             \* arguments of the current do_request call
    attempt,         \* loop variable of do_request (u32)
    sends,           \* calls of request.send() made by the current call
    sleeps,          \* backoff sleeps started by the current call
    inflight,        \* the request handed to the transport by the last send
                     \* (None when the builder refused it and nothing was sent)
    response,        \* outcome of the last send (response or transport error)
    backoff,         \* duration (seconds, u64) of the backoff sleep in progress
    result,          \* value returned by do_request
    transport_failed, \* history: a send of the current call failed in the transport
    pag_pc,          \* position of the paginate_cursor future
    pag_path,        \* argument of paginate_cursor
    all_items,       \* paginate_cursor: accumulated items
    cursor,          \* paginate_cursor: cursor
    has_more,        \* paginate_cursor: has_more
    gets,            \* paths of the GET calls issued by paginate_cursor, in order
    pages,           \* number of page bodies paginate_cursor has decoded
    pag_result,      \* value returned by paginate_cursor
    options,         \* ClientOptions under construction
    new_pc           \* position of the construction: "options", "built", "failed"

vars == <<overflow_checks, client, pc, req, attempt, sends, sleeps, inflight,
          response, backoff, result, transport_failed, pag_pc, pag_path, all_items, cursor, has_more,
          gets, pages, pag_result, options, new_pc>>

req_vars == <<pc, req, attempt, sends, sleeps, inflight, response, backoff, result,
              transport_failed>>
pag_vars == <<pag_pc, pag_path, all_items, cursor, has_more, gets, pages, pag_result>>
new_vars == <<options, client, new_pc>>
\* what a step of do_request leaves alone
env_vars == <<overflow_checks, options, client, new_pc,
              pag_pc, pag_path, all_items, cursor, has_more, gets, pages, pag_result>>

\* fields of the Client
max_retries == client.v.max_retries
base_url == client.v.base_url
default_headers == client.v.headers

-----------------------------------------------------------------------------
(* Option<T> *)
None == [some |-> FALSE]
Some(x) == [some |-> TRUE, v |-> x]

-----------------------------------------------------------------------------
(* Fixed-width unsigned integers *)
Base == 2^16
U32Len == 1 + 1
U64Len == 2 + 2

RECURSIVE NatToLimbs(_, _)
NatToLimbs(n, len) ==
    IF len = 0 THEN <<>> ELSE <<n % Base>> \o NatToLimbs(n \div Base, len - 1)

\* a natural number below 2^31 as a u32 / u64
U32(n) == NatToLimbs(n, U32Len)
U64(n) == NatToLimbs(n, U64Len)

RECURSIVE IsZero(_)
IsZero(x) == x = <<>> \/ (Head(x) = 0 /\ IsZero(Tail(x)))

\* x + c for a carry-in c < Base; one limb longer than x (the carry out)
RECURSIVE AddCarry(_, _)
AddCarry(x, c) ==
    IF x = <<>> THEN <<c>>
    ELSE <<(Head(x) + c) % Base>> \o AddCarry(Tail(x), (Head(x) + c) \div Base)

\* x * d + c for d, c < 2^15; one limb longer than x (the carry out)
RECURSIVE MulCarry(_, _, _)
MulCarry(x, d, c) ==
    IF x = <<>> THEN <<c>>
    ELSE <<(Head(x) * d + c) % Base>> \o MulCarry(Tail(x), d, (Head(x) * d + c) \div Base)

RECURSIVE LimbsLt(_, _)
LimbsLt(x, y) ==
    IF x = <<>> THEN FALSE
    ELSE IF x[Len(x)] # y[Len(x)] THEN x[Len(x)] < y[Len(x)]
    ELSE LimbsLt(SubSeq(x, 1, Len(x) - 1), SubSeq(y, 1, Len(x) - 1))

LimbsMin(x, y) == IF LimbsLt(y, x) THEN y ELSE x

\* x - 1 for x > 0
RECURSIVE Decrement(_)
Decrement(x) ==
    IF Head(x) > 0 THEN <<Head(x) - 1>> \o Tail(x)
    ELSE <<Base - 1>> \o Decrement(Tail(x))

Wrapped(limbs, len) == [v |-> SubSeq(limbs, 1, len), of |-> limbs[len + 1] # 0]

\* a + n and a * n for a small n, on an unsigned integer of a's width:
\* [v: the wrapped value, of: the operation overflowed]
AddSmall(a, n) == Wrapped(AddCarry(a, n), Len(a))
MulSmall(a, n) == Wrapped(MulCarry(a, n, 0), Len(a))

\* u64::pow(self, exp: u32) for a small base: self multiplied exp times, wrapping.
\* [v: the wrapped result, of: a multiplication overflowed on the way]
\* (once the accumulator has wrapped to zero it stays zero)
RECURSIVE PowLoop(_, _, _, _)
PowLoop(b, exp, acc, of) ==
    IF IsZero(exp) \/ (of /\ IsZero(acc)) THEN [v |-> acc, of |-> of]
    ELSE PowLoop(b, Decrement(exp), MulSmall(acc, b).v, of \/ MulSmall(acc, b).of)

Pow(b, exp) == PowLoop(b, exp, U64(1), FALSE)

-----------------------------------------------------------------------------
(* Strings (sequences of characters) *)
DigitChars == <<"0", "1", "2", "3", "4", "5", "6", "7", "8", "9">>
IsDigit(c) == \E i \in 1..Len(DigitChars) : DigitChars[i] = c
DigitVal(c) == (CHOOSE i \in 1..Len(DigitChars) : DigitChars[i] = c) - 1

\* a byte outside the visible ASCII range (0x80 and above)
NonAscii == "\\x80"
\* a control byte (line feed)
LineFeed == "\\n"

Contains(s, c) == \E i \in 1..Len(s) : s[i] = c

\* str::parse::<u64>(): optional '+', then decimal digits, checked arithmetic
RECURSIVE ParseDigits(_, _)
ParseDigits(s, acc) ==
    IF s = <<>> THEN Some(acc)
    ELSE IF ~IsDigit(Head(s)) THEN None
    ELSE LET m == MulSmall(acc, 10)
             a == AddSmall(m.v, DigitVal(Head(s)))
         IN  IF m.of \/ a.of THEN None ELSE ParseDigits(Tail(s), a.v)

ParseU64(s) ==
    LET digits == IF s # <<>> /\ Head(s) = "+" THEN Tail(s) ELSE s
    IN  IF digits = <<>> \/ s = <<"-">> THEN None ELSE ParseDigits(digits, U64(0))

\* HeaderValue::to_str(): Some(text) when every byte is visible ASCII
ToStr(hv) == IF Contains(hv, NonAscii) \/ Contains(hv, LineFeed) THEN None ELSE Some(hv)

\* Option::and_then
AndThen(opt, F(_)) == IF opt.some THEN F(opt.v) ELSE None

-----------------------------------------------------------------------------
(* serde_json::Value *)
\* each variant keeps its payload under a field of its own
JNull == [t |-> "null"]
JBool(b) == [t |-> "bool", b |-> b]
JNum(n) == [t |-> "num", n |-> n]
JStr(s) == [t |-> "str", s |-> s]
JArr(a) == [t |-> "arr", a |-> a]
JObj(o) == [t |-> "obj", o |-> o]

\* Value::get(key)
JGet(val, key) ==
    IF val.t = "obj" /\ key \in DOMAIN val.o THEN Some(val.o[key]) ELSE None
\* val[key]: Null when val is no object or has no such member
JIndex(val, key) == IF JGet(val, key).some THEN JGet(val, key).v ELSE JNull
\* Value::as_str()
AsStr(val) == IF val.t = "str" THEN Some(val.s) ELSE None

\* Response::json::<Value>(): the decoded body, or None when reading or decoding fails
ResponseJson(resp) == IF resp.body.kind = "json" THEN Some(resp.body.v) ELSE None

-----------------------------------------------------------------------------
(* APIError *)
\* message: the text the code formats and the number it interpolates (0: none),
\* or the message string of the response body
Msg(fmt, n) == [fmt |-> fmt, n |-> n]
MsgBody(s) == [body_message |-> s]

PARSE_ERROR == <<"P", "A", "R", "S", "E", "_", "E", "R", "R", "O", "R">>
REQUEST_ERROR == <<"R", "E", "Q", "U", "E", "S", "T", "_", "E", "R", "R", "O", "R">>
MAX_RETRIES_EXCEEDED == <<"M", "A", "X", "_", "R", "E", "T", "R", "I", "E", "S", "_",
                          "E", "X", "C", "E", "E", "D", "E", "D">>

APIError(message, status, code, details, request_id) ==
    [message |-> message, status |-> status, code |-> code,
     details |-> details, request_id |-> request_id]

Ok(x) == [ok |-> TRUE, v |-> x]
Err(e) == [ok |-> FALSE, err |-> e]

\* (mutant: the header is preferred over the body)
body_request_id_header_first(body, request_id) ==
    IF request_id.some THEN request_id ELSE AsStr(JIndex(body, "requestId"))

\* the value of request_id in parse_error's Ok(body) arm
body_request_id(body, request_id) ==
    LET from_body == AsStr(JIndex(body, "requestId"))
    IN  IF from_body.some THEN from_body ELSE request_id

parse_error(resp) ==
    LET status     == resp.status
        request_id == AndThen(resp.x_request_id, ToStr)
        decoded    == ResponseJson(resp)
    IN  IF decoded.some
        THEN LET body == decoded.v
                 m    == AsStr(JIndex(body, "message"))
             IN  APIError(IF m.some THEN MsgBody(m.v) ELSE Msg("Request failed", 0),
                          Some(status),
                          AsStr(JIndex(body, "code")),
                          JGet(body, "details"),
                          body_request_id(body, request_id))
        ELSE APIError(Msg("Request failed with status {}", status),
                      Some(status), None, None, request_id)

-----------------------------------------------------------------------------
(* calculate_backoff and the classification of do_request *)
RetryableStatuses == {429, 500, 502, 503, 504}
IsSuccess(status) == 200 <= status /\ status <= 299
\* (mutant: the empty success is looked for under the wrong status)
IsNoContentWrongStatus(status) == status = 200
IsNoContent(status) == status = 204

\* 2u64.pow(attempt).min(8)
ExponentialBackoff(a) ==
    LET p == Pow(2, a)
    IN  [panic |-> overflow_checks /\ p.of, secs |-> LimbsMin(p.v, U64(8))]

\* (mutant: the server's hint is capped like the exponential backoff)
calculate_backoff_capped(a, retry_after) ==
    IF retry_after.some THEN [panic |-> FALSE, secs |-> LimbsMin(retry_after.v, U64(8))]
    ELSE ExponentialBackoff(a)

calculate_backoff(a, retry_after) ==
    IF retry_after.some THEN [panic |-> FALSE, secs |-> retry_after.v]
    ELSE ExponentialBackoff(a)

\* the Retry-After hint read at lines 304-308
RetryAfter(resp) == AndThen(AndThen(resp.retry_after, ToStr), ParseU64)

\* attempt < self.max_retries
\* (mutant: the last attempt of the range is retried too)
AttemptsRemainInclusive(a) == ~LimbsLt(max_retries, a)
AttemptsRemain(a) == LimbsLt(a, max_retries)

IsRetryable(status) == status \in RetryableStatuses

-----------------------------------------------------------------------------
(* Client::new *)
VERSION == <<"0", ".", "1", ".", "0">>
DEFAULT_TIMEOUT_SECS == 15
DEFAULT_MAX_RETRIES == 3

UpperChars == <<"A", "B", "C", "D", "E", "F", "G", "H", "I", "J", "K", "L", "M",
                "N", "O", "P", "Q", "R", "S", "T", "U", "V", "W", "X", "Y", "Z">>
LowerChars == <<"a", "b", "c", "d", "e", "f", "g", "h", "i", "j", "k", "l", "m",
                "n", "o", "p", "q", "r", "s", "t", "u", "v", "w", "x", "y", "z">>
ToLowerChar(c) ==
    IF \E i \in 1..Len(UpperChars) : UpperChars[i] = c
    THEN LowerChars[CHOOSE i \in 1..Len(UpperChars) : UpperChars[i] = c]
    ELSE c
ToLower(s) == [i \in 1..Len(s) |-> ToLowerChar(s[i])]

\* HeaderValue::from_str: every byte from 32 up other than 127, or a tab, is
\* accepted (bytes of 0x80 and above included); control bytes are refused
HeaderValueFromStr(s) == IF Contains(s, LineFeed) THEN None ELSE Some(s)

\* the bytes of an HTTP token other than letters and digits
\* (the grave accent, byte 0x60, is written GraveAccent)
GraveAccent == "\\x60"
TokenMarks == <<"!", "#", "$", "%", "&", "'", "*", "+", "-", ".", "^", "_", GraveAccent,
                "|", "~">>
IsTokenChar(c) ==
    \/ \E i \in 1..Len(UpperChars) : UpperChars[i] = c \/ LowerChars[i] = c
    \/ IsDigit(c)
    \/ \E i \in 1..Len(TokenMarks) : TokenMarks[i] = c

\* HeaderName::from_bytes: a non-empty sequence of token bytes, normalised to
\* lower case; anything else is refused
HeaderNameFromBytes(s) ==
    IF s = <<>> \/ \E i \in 1..Len(s) : ~IsTokenChar(s[i])
    THEN None ELSE Some(ToLower(s))

H_USER_AGENT == <<"u", "s", "e", "r", "-", "a", "g", "e", "n", "t">>
H_AUTHORIZATION == <<"a", "u", "t", "h", "o", "r", "i", "z", "a", "t", "i", "o", "n">>
H_X_SDK_LANGUAGE == <<"X", "-", "S", "D", "K", "-", "L", "a", "n", "g", "u", "a", "g", "e">>
H_X_SDK_VERSION == <<"X", "-", "S", "D", "K", "-", "V", "e", "r", "s", "i", "o", "n">>
H_X_API_KEY == <<"X", "-", "A", "P", "I", "-", "K", "e", "y">>
H_IDEMPOTENCY_KEY == <<"I", "d", "e", "m", "p", "o", "t", "e", "n", "c", "y", "-", "K", "e", "y">>
H_CONTENT_TYPE == <<"c", "o", "n", "t", "e", "n", "t", "-", "t", "y", "p", "e">>
SDK_USER_AGENT == <<"y", "o", "u", "r", "a", "p", "i", "-", "r", "u", "s", "t", "-",
                    "s", "d", "k", "/">> \o VERSION
RUST == <<"r", "u", "s", "t">>
BEARER == <<"B", "e", "a", "r", "e", "r", " ">>
APPLICATION_JSON == <<"a", "p", "p", "l", "i", "c", "a", "t", "i", "o", "n", "/",
                      "j", "s", "o", "n">>

\* HeaderMap::insert under an already normalised name; m = [err, h]
Insert(m, name, value) ==
    IF m.err \/ ~name.some \/ ~value.some THEN [err |-> TRUE, h |-> m.h]
    ELSE [err |-> FALSE, h |-> (name.v :> value.v) @@ m.h]

EmptyHeaders == [n \in {} |-> <<>>]

\* (mutant: the API key is looked at first)
AuthHeadersApiKeyFirst(m, opts) ==
    IF opts.api_key.some
    THEN Insert(m, HeaderNameFromBytes(H_X_API_KEY), HeaderValueFromStr(opts.api_key.v))
    ELSE IF opts.bearer_token.some
    THEN Insert(m, Some(H_AUTHORIZATION), HeaderValueFromStr(BEARER \o opts.bearer_token.v))
    ELSE m

\* lines 156-167: the authentication header
AuthHeaders(m, opts) ==
    IF opts.bearer_token.some
    THEN Insert(m, Some(H_AUTHORIZATION), HeaderValueFromStr(BEARER \o opts.bearer_token.v))
    ELSE IF opts.api_key.some
    THEN Insert(m, HeaderNameFromBytes(H_X_API_KEY), HeaderValueFromStr(opts.api_key.v))
    ELSE m

\* lines 169-177: custom headers, inserted in the map's iteration order
RECURSIVE CustomHeaders(_, _, _)
CustomHeaders(m, custom, order) ==
    IF order = <<>> THEN m
    ELSE CustomHeaders(Insert(m, HeaderNameFromBytes(Head(order)),
                                 HeaderValueFromStr(custom[Head(order)])),
                       custom, Tail(order))

\* str::trim_end_matches('/')
RECURSIVE TrimEndSlashes(_)
TrimEndSlashes(s) ==
    IF s # <<>> /\ s[Len(s)] = "/" THEN TrimEndSlashes(SubSeq(s, 1, Len(s) - 1)) ELSE s

UnwrapOr(opt, d) == IF opt.some THEN opt.v ELSE d

\* Client::new(options); order is the iteration order of options.custom_headers
ClientNew(opts, order) ==
    LET user_agent == UnwrapOr(opts.user_agent, SDK_USER_AGENT)
        h1 == Insert([err |-> FALSE, h |-> EmptyHeaders],
                     Some(H_USER_AGENT), HeaderValueFromStr(user_agent))
        h2 == Insert(h1, HeaderNameFromBytes(H_X_SDK_LANGUAGE), Some(RUST))
        h3 == Insert(h2, HeaderNameFromBytes(H_X_SDK_VERSION), HeaderValueFromStr(VERSION))
        h4 == AuthHeaders(h3, opts)
        h5 == IF opts.custom_headers.some
              THEN CustomHeaders(h4, opts.custom_headers.v, order) ELSE h4
    IN  [ok          |-> ~h5.err,
         headers     |-> h5.h,
         timeout     |-> UnwrapOr(opts.timeout_secs, DEFAULT_TIMEOUT_SECS),
         base_url    |-> TrimEndSlashes(opts.base_url),
         max_retries |-> UnwrapOr(opts.max_retries, U32(DEFAULT_MAX_RETRIES)),
         debug       |-> opts.debug]

\* ClientOptions::new and the with_* builders
ClientOptionsNew(url) ==
    [base_url |-> url, api_key |-> None, bearer_token |-> None, timeout_secs |-> None,
     max_retries |-> None, user_agent |-> None, custom_headers |-> None, debug |-> FALSE]
with_api_key(o, k) == [o EXCEPT !.api_key = Some(k)]
with_bearer_token(o, t) == [o EXCEPT !.bearer_token = Some(t)]
with_timeout(o, secs) == [o EXCEPT !.timeout_secs = Some(secs)]
with_max_retries(o, n) == [o EXCEPT !.max_retries = Some(n)]
with_debug(o, d) == [o EXCEPT !.debug = d]

-----------------------------------------------------------------------------
(* Bounds of the model *)
\* the largest max_retries of a client whose retry loop is followed to its end
DeepRetries == 65
\* the pages the server holds for one traversal: the answer to GET number
\* MaxGets announces no further page
MaxGets == 3

-----------------------------------------------------------------------------
(* do_request *)
GET == "GET"
POST == "POST"
PATCH == "PATCH"
PUT == "PUT"
DELETE == "DELETE"

\* the orders in which a map with these keys can be iterated
Orders(keys) ==
    { o \in [1..Cardinality(keys) -> keys] : \A i, j \in 1..Cardinality(keys) : o[i] = o[j] => i = j }

\* line 273: RequestBuilder::header appends the value to the values the
\* request already holds under that name (names compare in lower case)
AppendHeader(m, name, value) ==
    LET n == ToLower(name)
    IN  IF n \in DOMAIN m THEN [m EXCEPT ![n] = Append(@, value)]
        ELSE (n :> <<value>>) @@ m

\* lines 271-275: the loop over extra_headers, in the map's iteration order
RECURSIVE AppendHeaders(_, _, _)
AppendHeaders(m, extra, order) ==
    IF order = <<>> THEN m
    ELSE AppendHeaders(AppendHeader(m, Head(order), extra[Head(order)]), extra, Tail(order))

\* lines 267-275: the headers the request sets itself, each name with the
\* sequence of its values: Content-Type from .json(body), then the extra ones
OwnHeaders(r) ==
    LET ct == IF r.body.some THEN (H_CONTENT_TYPE :> <<APPLICATION_JSON>>) ELSE EmptyHeaders
    IN  IF r.headers.some THEN AppendHeaders(ct, r.headers.v, r.order) ELSE ct

\* the client's default headers as the transport sends them (one value each)
DefaultsSent == [n \in DOMAIN default_headers |-> <<default_headers[n]>>]

\* lines 271-275: RequestBuilder::header converts each name and value
\* (HeaderName / HeaderValue); when one is refused the builder keeps the error
\* and send() returns it without handing anything to the transport
BuilderAccepts(r) ==
    r.headers.some =>
        \A k \in DOMAIN r.headers.v :
            HeaderNameFromBytes(k).some /\ HeaderValueFromStr(r.headers.v[k]).some

\* (mutant: the extra headers are attached to the first attempt only)
BuildRequestKeyOnce(r) ==
    [method  |-> r.method,
     url     |-> base_url \o r.path,
     body    |-> r.body,
     headers |-> OwnHeaders(IF sends = 0 THEN r ELSE [r EXCEPT !.headers = None])
                 @@ DefaultsSent]

\* lines 265-275: the request handed to the transport; the transport adds its
\* default headers under the names the request does not set itself
BuildRequest(r) ==
    [method  |-> r.method,
     url     |-> base_url \o r.path,
     body    |-> r.body,
     headers |-> OwnHeaders(r) @@ DefaultsSent]

\* the for loop's range 0..=self.max_retries: is there a value after a
RangeHasNext(a) == LimbsLt(a, max_retries)
\* (mutant: the loop variable is not advanced)
RangeNextStuck(a) == a
RangeNext(a) == AddSmall(a, 1).v

\* lines 257-263: attempt + 1 and self.max_retries + 1 overflow a u32
LogLineOverflows(a) == AddSmall(a, 1).of \/ AddSmall(max_retries, 1).of

\* lines 256-277: one iteration of the loop up to request.send().await
SendAttempt(r, a, sent) ==
    /\ attempt' = a
    /\ IF overflow_checks /\ LogLineOverflows(a)
       THEN /\ pc' = "panicked"
            /\ sends' = sent
            /\ inflight' = None
       ELSE /\ pc' = "sending"
            /\ sends' = sent + 1
            /\ inflight' = IF BuilderAccepts(r) THEN Some(BuildRequest(r)) ELSE None

Return(value) ==
    /\ pc' = "returned"
    /\ result' = Some(value)

\* lines 310-313 and 321-324: compute the backoff and start the sleep
StartBackoff(retry_after) ==
    LET b == calculate_backoff(attempt, retry_after)
    IN  IF b.panic
        THEN pc' = "panicked" /\ UNCHANGED <<backoff, sleeps>>
        ELSE pc' = "sleeping" /\ backoff' = Some(b.secs) /\ sleeps' = sleeps + 1

\* lines 247-277: the call itself, up to the first send
\* (order: the iteration order of the headers map, the same at every attempt)
do_request(method, path, body, headers) ==
    /\ \E order \in Orders(IF headers.some THEN DOMAIN headers.v ELSE {}) :
         req' = [method |-> method, path |-> path, body |-> body,
                 headers |-> headers, order |-> order]
    /\ SendAttempt(req', U32(0), 0)
    /\ sleeps' = 0
    /\ response' = None
    /\ backoff' = None
    /\ result' = None
    /\ transport_failed' = FALSE

\* (mutant: a failed send is retried at once, with no backoff sleep)
TransportFailsNoSleep ==
    /\ pc = "sending"
    /\ response' = Some([kind |-> "err"])
    /\ transport_failed' = TRUE
    /\ IF AttemptsRemain(attempt)
       THEN SendAttempt(req, RangeNext(attempt), sends)
            /\ UNCHANGED <<result, backoff, sleeps>>
       ELSE /\ Return(Err(APIError(Msg("Request failed: {}", 0), None,
                                   Some(REQUEST_ERROR), None, None)))
            /\ UNCHANGED <<backoff, sleeps, attempt, sends, inflight>>
    /\ UNCHANGED <<req, env_vars>>

\* lines 319-333: request.send() failed (in the transport, or at once because
\* the builder had refused the request)
TransportFails ==
    /\ pc = "sending"
    /\ response' = Some([kind |-> "err"])
    /\ transport_failed' = TRUE
    /\ IF AttemptsRemain(attempt)
       THEN StartBackoff(None) /\ UNCHANGED result
       ELSE /\ Return(Err(APIError(Msg("Request failed: {}", 0), None,
                                   Some(REQUEST_ERROR), None, None)))
            /\ UNCHANGED <<backoff, sleeps>>
    /\ UNCHANGED <<req, attempt, sends, inflight, env_vars>>

\* lines 278-317: request.send() produced a response
TransportResponds(r) ==
    /\ pc = "sending"
    /\ inflight.some
    /\ response' = Some(r)
    /\ IF IsSuccess(r.status)
       THEN /\ IF IsNoContent(r.status)
               THEN Return(Ok(None))
               ELSE pc' = "reading" /\ UNCHANGED result
            /\ UNCHANGED <<backoff, sleeps>>
       ELSE IF IsRetryable(r.status) /\ AttemptsRemain(attempt)
       THEN StartBackoff(RetryAfter(r)) /\ UNCHANGED result
       ELSE pc' = "parsing_error" /\ UNCHANGED <<result, backoff, sleeps>>
    /\ UNCHANGED <<req, attempt, sends, inflight, transport_failed, env_vars>>

\* (mutant: an undecodable success body is retried while attempts remain)
ReadBodyRetries ==
    /\ pc = "reading"
    /\ LET data == ResponseJson(response.v)
       IN  IF data.some
           THEN Return(Ok(Some(data.v))) /\ UNCHANGED <<backoff, sleeps>>
           ELSE IF AttemptsRemain(attempt)
           THEN StartBackoff(None) /\ UNCHANGED result
           ELSE /\ Return(Err(APIError(Msg("Failed to parse response: {}", 0),
                                       Some(response.v.status), Some(PARSE_ERROR),
                                       None, None)))
                /\ UNCHANGED <<backoff, sleeps>>
    /\ UNCHANGED <<req, attempt, sends, inflight, response, transport_failed, env_vars>>

\* lines 287-298: response.json() of a success response completes
ReadBody ==
    /\ pc = "reading"
    /\ LET data == ResponseJson(response.v)
       IN  IF data.some
           THEN Return(Ok(Some(data.v)))
           ELSE Return(Err(APIError(Msg("Failed to parse response: {}", 0),
                                    Some(response.v.status), Some(PARSE_ERROR),
                                    None, None)))
    /\ UNCHANGED <<req, attempt, sends, sleeps, inflight, response, backoff,
                   transport_failed, env_vars>>

\* line 317: parse_error completes
ParseErrorDone ==
    /\ pc = "parsing_error"
    /\ Return(Err(parse_error(response.v)))
    /\ UNCHANGED <<req, attempt, sends, sleeps, inflight, response, backoff,
                   transport_failed, env_vars>>

\* (mutant: the timer of a sleep outlives the future that awaited it)
SleepingOrCancelled == pc \in {"sleeping", "cancelled"}
\* lines 312 and 323: the future is suspended in tokio::time::sleep(backoff).await
Sleeping == pc = "sleeping"

\* the sleep completes: `continue`, lines 256-277 of the next iteration, or the
\* fall-through of lines 337-343 when the range is exhausted
SleepDone ==
    /\ Sleeping
    /\ IF RangeHasNext(attempt)
       THEN SendAttempt(req, RangeNext(attempt), sends) /\ UNCHANGED result
       ELSE /\ Return(Err(APIError(Msg("Max retries exceeded", 0), None,
                                   Some(MAX_RETRIES_EXCEEDED), None, None)))
            /\ UNCHANGED <<attempt, sends, inflight>>
    /\ response' = None
    /\ backoff' = None
    /\ UNCHANGED <<req, sleeps, transport_failed, env_vars>>

-----------------------------------------------------------------------------
(* The server and the transport: what a send can produce *)
R1 == <<"r", "1">>
R2 == <<"r", "2">>
Cursor1 == <<"c", "1">>
Cursor2 == <<"c", "2">>
BAD == <<"b", "a", "d">>
E_BAD == <<"E", "_", "B", "A", "D">>

\* 2^64 - 1 and 2^64 in decimal
U64MaxDigits == <<"1", "8", "4", "4", "6", "7", "4", "4", "0", "7", "3", "7", "0",
                  "9", "5", "5", "1", "6", "1", "5">>
TwoPow64Digits == <<"1", "8", "4", "4", "6", "7", "4", "4", "0", "7", "3", "7", "0",
                    "9", "5", "5", "1", "6", "1", "6">>

RetryAfterValues ==
    { <<"0">>, <<"7">>, <<"1", "2", "0">>, <<"0", "0", "9">>, <<"+", "3">>,
      <<"-", "1">>, <<"W", "e", "d", ",", " ", "2", "1">>, <<"7", NonAscii>>,
      U64MaxDigits, TwoPow64Digits }

JsonBody(val) == [kind |-> "json", v |-> val]
Garbage == [kind |-> "garbage"]

Page(items, next, more) ==
    JsonBody(JObj([items |-> JArr(items), nextCursor |-> next, hasMore |-> JBool(more)]))

PageBodies ==
    { Page(items, next, more) :
        items \in {<<JNum(1), JNum(2)>>, <<JNum(3)>>},
        next \in {JNull, JStr(Cursor1), JStr(Cursor2)},
        more \in BOOLEAN }
    \cup { JsonBody(JObj([items |-> JArr(<<JNum(4)>>), hasMore |-> JBool(TRUE)])),
           JsonBody(JObj([items |-> JArr(<<JNum(4)>>), nextCursor |-> JStr(Cursor1)])),
           JsonBody(JObj([items |-> JNum(4), nextCursor |-> JNull, hasMore |-> JBool(FALSE)])),
           JsonBody(JObj([items |-> JArr(<<JStr(BAD)>>), nextCursor |-> JStr(Cursor1),
                          hasMore |-> JBool(TRUE)])),
           JsonBody(JObj([items |-> JArr(<<JNum(5)>>), nextCursor |-> JNum(7),
                          hasMore |-> JBool(TRUE)])),
           JsonBody(JArr(<<JArr(<<JNum(6)>>), JStr(Cursor2), JBool(TRUE)>>)),
           JsonBody(JArr(<<JArr(<<JNum(6)>>), JStr(Cursor2)>>)) }

ErrorBodies ==
    { JsonBody(JObj([message |-> JStr(BAD), code |-> JStr(E_BAD), requestId |-> JStr(R1)])),
      JsonBody(JObj([message |-> JStr(BAD), details |-> JArr(<<JNum(1)>>)])),
      JsonBody(JObj([code |-> JNum(7), requestId |-> JNum(42)])),
      JsonBody(JObj([message |-> JNull, requestId |-> JNull])),
      JsonBody(JArr(<<JStr(R1)>>)),
      JsonBody(JObj([code |-> JStr(REQUEST_ERROR)])),
      JsonBody(JObj([code |-> JStr(MAX_RETRIES_EXCEEDED)])),
      Garbage }

Resp(status, retry_after, x_request_id, body) ==
    [kind |-> "resp", status |-> status, retry_after |-> retry_after,
     x_request_id |-> x_request_id, body |-> body]

XOne == JsonBody(JObj([x |-> JNum(1)]))

SuccessResponses ==
    { Resp(200, None, None, XOne), Resp(200, None, None, Garbage),
      Resp(204, None, None, Garbage), Resp(204, None, Some(R2), XOne),
      Resp(299, None, None, XOne), Resp(299, None, None, Garbage) }

RetryableResponses ==
    { Resp(s, None, None, Garbage) : s \in RetryableStatuses }
    \cup { Resp(429, Some(ra), None, Garbage) : ra \in RetryAfterValues }
    \cup { Resp(503, Some(<<"1", "2", "0">>), Some(R2), b) : b \in ErrorBodies }

ErrorResponses ==
    { Resp(400, None, x, b) : x \in {None, Some(R2), Some(<<NonAscii>>)}, b \in ErrorBodies }
    \cup { Resp(s, Some(<<"7">>), Some(R2), Garbage) : s \in {199, 301, 404, 501} }

PageResponses ==
    { Resp(200, None, None, b) : b \in PageBodies \cup {Garbage} }
    \cup { Resp(204, None, None, Garbage),
           Resp(503, None, None, Garbage),
           Resp(404, None, Some(R2), Garbage) }

Responses == SuccessResponses \cup RetryableResponses \cup ErrorResponses

-----------------------------------------------------------------------------
(* Method shortcuts *)
Path1 == <<"/", "a">>
Path2 == <<"/", "a", "?", "q">>
Path3 == <<"/", "a", "?", "c", "u", "r", "s", "o", "r", "=", "c", "0">>
PagPaths == {Path1, Path2, Path3}
Data1 == JObj([x |-> JNum(1)])
Key1 == <<"k", "1">>
Key2 == <<"k", LineFeed>>

Callable == new_pc = "built" /\ pc = "idle" /\ pag_pc = "idle"

get(path) == do_request(GET, path, None, None)

\* lines 352-365
post(path, data, idempotency_key) ==
    LET headers == IF idempotency_key.some
                   THEN (H_IDEMPOTENCY_KEY :> idempotency_key.v) ELSE EmptyHeaders
        headers_opt == IF DOMAIN headers = {} THEN None ELSE Some(headers)
    IN  do_request(POST, path, Some(data), headers_opt)

patch(path, data) == do_request(PATCH, path, Some(data), None)
put(path, data) == do_request(PUT, path, Some(data), None)
delete(path) == do_request(DELETE, path, None, None)

CallGet == Callable /\ get(Path1) /\ UNCHANGED env_vars
CallPost ==
    Callable /\ \E k \in {None, Some(Key1), Some(Key2)} : post(Path1, Data1, k)
             /\ UNCHANGED env_vars
CallPatch == Callable /\ patch(Path1, Data1) /\ UNCHANGED env_vars
CallPut == Callable /\ put(Path1, Data1) /\ UNCHANGED env_vars
CallDelete == Callable /\ delete(Path1) /\ UNCHANGED env_vars

-----------------------------------------------------------------------------
(* Specification of a single call to the pipeline *)
U32Max == <<Base - 1, Base - 1>>
Url1 == <<"h", "/">>
Token1 == <<"t", "1">>

Key0 == <<"k", "0">>

RetryOptions == {None, Some(U32(0)), Some(U32(1)), Some(U32(DeepRetries)), Some(U32Max)}

\* the retry loop of a client with max_retries = u32::MAX has 2^32 iterations:
\* its calls are followed in the build with overflow checks, where line 262
\* stops them (SpecNew sends the first request of such a client in both builds)
LoopIsFollowed(n) == n = Some(U32Max) => overflow_checks

\* custom_headers of the clients: none, or one that names Idempotency-Key
\* (lines 169-177 make it a default header of every request)
SpecCustomHeaders == {None, Some(H_IDEMPOTENCY_KEY :> Key0)}

InitRequest ==
    /\ pc = "idle"
    /\ req = None
    /\ attempt = U32(0)
    /\ sends = 0
    /\ sleeps = 0
    /\ inflight = None
    /\ response = None
    /\ backoff = None
    /\ result = None
    /\ transport_failed = FALSE

InitPaginate ==
    /\ pag_pc = "idle"
    /\ pag_path = <<>>
    /\ all_items = <<>>
    /\ cursor = None
    /\ has_more = TRUE
    /\ gets = <<>>
    /\ pages = 0
    /\ pag_result = None

Init ==
    /\ overflow_checks \in BOOLEAN
    /\ \E n \in RetryOptions, c \in SpecCustomHeaders :
         /\ LoopIsFollowed(n)
         /\ options = [with_bearer_token(ClientOptionsNew(Url1), Token1)
                         EXCEPT !.max_retries = n, !.custom_headers = c]
         /\ \E order \in Orders(IF c.some THEN DOMAIN c.v ELSE {}) :
              client = Some(ClientNew(options, order))
    /\ new_pc = "built"
    /\ InitRequest
    /\ InitPaginate

\* the await points of do_request: send (277), the body of a success (287) or
\* of an error (317, in parse_error), the backoff sleep (312, 323)
SuspensionPoints == {"sending", "reading", "parsing_error", "sleeping"}

\* the caller drops the future of an outstanding call: the pending send, body
\* read or sleep is dropped with it, and so are the locals of the call
Cancel ==
    /\ pc \in SuspensionPoints
    /\ pc' = "cancelled"
    /\ inflight' = None
    /\ response' = None
    /\ backoff' = None
    /\ UNCHANGED <<req, attempt, sends, sleeps, result, transport_failed, env_vars>>

RequestStep ==
    \/ TransportFails
    \/ \E r \in Responses : TransportResponds(r)
    \/ ReadBody
    \/ ParseErrorDone
    \/ SleepDone

Call ==
    \/ CallGet
    \/ CallPost
    \/ CallPatch
    \/ CallPut
    \/ CallDelete

Next == Call \/ RequestStep \/ Cancel

Spec == Init /\ [][Next]_vars

-----------------------------------------------------------------------------
(* paginate_cursor, with T = i64 *)
CURSOR_EQ == <<"c", "u", "r", "s", "o", "r", "=">>

\* (mutant: the cursor is always introduced by '?')
current_path_always_question(path, c) ==
    IF c.some THEN path \o <<"?">> \o CURSOR_EQ \o c.v ELSE path

\* lines 392-400
current_path(path, c) ==
    IF c.some
    THEN IF Contains(path, "?")
         THEN path \o <<"&">> \o CURSOR_EQ \o c.v
         ELSE path \o <<"?">> \o CURSOR_EQ \o c.v
    ELSE path

\* Deserialize for Vec<i64>, Option<String> and bool: None when the value has
\* another shape
DecodeItems(val) ==
    IF val.t = "arr" /\ \A i \in 1..Len(val.a) : val.a[i].t = "num"
    THEN Some([i \in 1..Len(val.a) |-> val.a[i].n]) ELSE None
DecodeOptString(val) ==
    IF val.t = "null" THEN Some(None)
    ELSE IF val.t = "str" THEN Some(Some(val.s)) ELSE None
DecodeBool(val) == IF val.t = "bool" THEN Some(val.b) ELSE None

DecodedPage(items, next, more) ==
    IF items.some /\ next.some /\ more.some
    THEN Some([items |-> items.v, next_cursor |-> next.v, has_more |-> more.v])
    ELSE None

\* serde_json::from_value::<CursorPaginatedResponse<i64>>: a map with items and
\* hasMore (nextCursor may be absent), or a sequence of the three fields
FromValue(data) ==
    IF data.t = "obj"
    THEN IF JGet(data, "items").some /\ JGet(data, "hasMore").some
         THEN DecodedPage(DecodeItems(JIndex(data, "items")),
                          DecodeOptString(JIndex(data, "nextCursor")),
                          DecodeBool(JIndex(data, "hasMore")))
         ELSE None
    ELSE IF data.t = "arr" /\ Len(data.a) = 3
    THEN DecodedPage(DecodeItems(data.a[1]), DecodeOptString(data.a[2]),
                     DecodeBool(data.a[3]))
    ELSE None

\* (mutant: the cursor is not consulted)
NextHasMoreIgnoringCursor(page) == page.has_more
\* (mutant: the hasMore flag is not consulted)
NextHasMoreIgnoringFlag(page) == page.next_cursor.some
\* line 415
NextHasMore(page) == page.has_more /\ page.next_cursor.some

PaginateParseError ==
    APIError(Msg("Failed to parse paginated response: {}", 0), None,
             Some(PARSE_ERROR), None, None)

\* (mutant: an error is swallowed and the items gathered so far are returned)
PagReturnPartial(value) ==
    /\ pag_pc' = "returned"
    /\ pag_result' = Some(IF value.ok THEN value ELSE [ok |-> TRUE, v |-> all_items])
    /\ pc' = "idle"
    /\ UNCHANGED <<req, attempt, sends, sleeps, inflight, response, backoff, result,
                   transport_failed, gets>>

\* (mutant: the page's items replace the accumulated ones)
ExtendReplacing(all, items) == items
\* line 413: all_items.extend(response.items)
Extend(all, items) == all \o items

\* paginate_cursor returns
PagReturn(value) ==
    /\ pag_pc' = "returned"
    /\ pag_result' = Some(value)
    /\ pc' = "idle"
    /\ UNCHANGED <<req, attempt, sends, sleeps, inflight, response, backoff, result,
                   transport_failed, gets>>

\* lines 391-402: the loop test, the path of the next GET, and the GET up to its
\* first send
PagLoop(path, items, c, more) ==
    IF more
    THEN /\ gets' = Append(gets, current_path(path, c))
         /\ get(current_path(path, c))
         /\ pag_pc' = "awaiting"
         /\ pag_result' = None
    ELSE PagReturn(Ok(items))

\* lines 383-402: the call itself
paginate_cursor(path) ==
    /\ pag_path' = path
    /\ all_items' = <<>>
    /\ cursor' = None
    /\ has_more' = TRUE
    /\ pages' = 0
    /\ PagLoop(path, <<>>, None, TRUE)

CallPaginate ==
    /\ Callable
    /\ \E path \in PagPaths : paginate_cursor(path)
    /\ UNCHANGED <<overflow_checks, new_vars>>

\* lines 402-419: the GET has returned
PagOnGet ==
    /\ pag_pc = "awaiting"
    /\ pc = "returned"
    /\ IF ~result.v.ok
       THEN PagReturn(Err(result.v.err))
            /\ UNCHANGED <<all_items, cursor, has_more, pages>>
       ELSE IF ~result.v.v.some
       THEN PagReturn(Ok(all_items))
            /\ UNCHANGED <<all_items, cursor, has_more, pages>>
       ELSE IF ~FromValue(result.v.v.v).some
       THEN PagReturn(Err(PaginateParseError))
            /\ UNCHANGED <<all_items, cursor, has_more, pages>>
       ELSE LET page == FromValue(result.v.v.v).v
            IN  /\ all_items' = Extend(all_items, page.items)
                /\ cursor' = page.next_cursor
                /\ has_more' = NextHasMore(page)
                /\ pages' = pages + 1
                /\ PagLoop(pag_path, all_items', cursor', has_more')
    /\ UNCHANGED <<overflow_checks, new_vars, pag_path>>

PagRetryOptions == {Some(U32(0)), Some(U32(1))}

InitPag ==
    /\ overflow_checks \in BOOLEAN
    /\ \E n \in PagRetryOptions :
         /\ options = [with_api_key(ClientOptionsNew(Url1), Key1)
                         EXCEPT !.max_retries = n]
         /\ client = Some(ClientNew(options, <<>>))
    /\ new_pc = "built"
    /\ InitRequest
    /\ InitPaginate

\* the response is a page that announces a further page
AnnouncesNextPage(r) ==
    /\ IsSuccess(r.status) /\ ~IsNoContent(r.status)
    /\ ResponseJson(r).some
    /\ FromValue(ResponseJson(r).v).some
    /\ NextHasMore(FromValue(ResponseJson(r).v).v)

\* what the server can answer to the GET in flight: it holds at most MaxGets
\* pages, so that the answer to GET number MaxGets announces no further page
ServerAnswers ==
    { r \in PageResponses : AnnouncesNextPage(r) => Len(gets) < MaxGets }

RequestStepPag ==
    \/ TransportFails
    \/ \E r \in ServerAnswers : TransportResponds(r)
    \/ ReadBody
    \/ ParseErrorDone
    \/ SleepDone

\* dropping the future of paginate_cursor drops the GET it is awaiting (Cancel)
NextPag == CallPaginate \/ PagOnGet \/ RequestStepPag \/ Cancel

SpecPag == InitPag /\ [][NextPag]_vars

-----------------------------------------------------------------------------
(* Properties of do_request, checked under Spec *)

\* the last send produced a response / a response with a non-2xx status
GotResponse == response.some /\ response.v.kind = "resp"
GotTransportError == response.some /\ response.v.kind = "err"
GotErrorStatus == GotResponse /\ ~IsSuccess(response.v.status)

\* C1: a do_request call performs at most max_retries + 1 transport sends
\* (sends - 1 <= max_retries at every point of the call).
C1_AttemptBudget ==
    client.some => (sends = 0 \/ ~LimbsLt(max_retries, U32(sends - 1)))

\* a call with the default max_retries = 3 that returned after its 4th send
C1_Witness ==
    /\ pc = "returned"
    /\ max_retries = U32(DEFAULT_MAX_RETRIES)
    /\ sends = DEFAULT_MAX_RETRIES + 1
    /\ sleeps = DEFAULT_MAX_RETRIES

\* C2: a retryable status received while attempts remain never ends the call:
\* the call is in its backoff sleep, from which the next send follows; any
\* other non-2xx status leads straight to the APIError (the error body is
\* read, then the call has returned an error), with no backoff.
C2_StatusClassification ==
    /\ (GotErrorStatus /\ IsRetryable(response.v.status) /\ AttemptsRemain(attempt))
          => pc = "sleeping"
    /\ (GotErrorStatus /\ ~IsRetryable(response.v.status))
          => /\ pc \in {"parsing_error", "returned"}
             /\ pc = "returned" => ~result.v.ok

\* min(2^a, 8) as a u64, for a u32 a
MinPow2Cap8(a) ==
    IF LimbsLt(a, U32(1)) THEN U64(1)
    ELSE IF LimbsLt(a, U32(2)) THEN U64(2)
    ELSE IF LimbsLt(a, U32(3)) THEN U64(4)
    ELSE U64(8)

\* the failure of the current attempt carries no usable Retry-After hint
NoHint == GotTransportError \/ (GotResponse /\ ~RetryAfter(response.v).some)

\* the current attempt failed in a way the loop retries
RetriedFailure ==
    /\ pc \in {"sleeping", "panicked"}
    /\ AttemptsRemain(attempt)
    /\ GotTransportError \/ (GotErrorStatus /\ IsRetryable(response.v.status))

\* C3: when attempt a < max_retries fails without a Retry-After hint, the call
\* sleeps exactly min(2^a, 8) seconds before the next attempt.
C3_BackoffLaw ==
    (RetriedFailure /\ NoHint)
       => pc = "sleeping" /\ backoff = Some(MinPow2Cap8(attempt))

\* the value of a string of decimal digits, on 96 bits (no overflow below 28 digits)
RECURSIVE DecimalValue(_, _)
DecimalValue(s, acc) ==
    IF s = <<>> THEN acc
    ELSE DecimalValue(Tail(s),
             SubSeq(AddCarry(SubSeq(MulCarry(acc, 10, 0), 1, Len(acc)),
                             DigitVal(Head(s))), 1, Len(acc)))

IsDecimal(s) == s # <<>> /\ \A i \in 1..Len(s) : IsDigit(s[i])
Widen(x) == x \o <<0, 0>>
HintValue(s) == DecimalValue(s, Widen(U64(0)))
FitsU64(wide) == wide[5] = 0 /\ wide[6] = 0

\* the retried response carries Retry-After as a decimal integer
IntegerHint ==
    /\ RetriedFailure
    /\ GotResponse
    /\ response.v.retry_after.some
    /\ IsDecimal(response.v.retry_after.v)

\* 2^a does not fit a u64
PowOverflows(a) == ~LimbsLt(a, U32(64))

\* no hint is carried over: the wait that follows a failure which brings no
\* usable hint of its own (a transport failure, a response without
\* Retry-After, or with one that is not an integer a u64 holds) is the one
\* the attempt index alone gives, min(2^a, 8) s for a < 64 (and, where 2^a
\* overflows, the 0 s of the wrapped power), whatever hints came earlier
NoHintCarriedOver ==
    (RetriedFailure /\ NoHint /\ pc = "sleeping")
       => backoff = Some(IF PowOverflows(attempt) THEN U64(0) ELSE MinPow2Cap8(attempt))

\* C4 as claimed: a retried response with Retry-After: k, for every integer k,
\* is followed by a sleep of exactly k seconds, and the hint is not reused
\* for later backoffs or for transport failures.
C4_HintVerbatimEveryK ==
    /\ IntegerHint
          => /\ pc = "sleeping"
             /\ Widen(backoff.v) = HintValue(response.v.retry_after.v)
    /\ NoHintCarriedOver

\* C4 (amended): a retried response with Retry-After: k, for every integer k
\* up to 2^64 - 1, is followed by a sleep of exactly k seconds whatever the
\* attempt index (no cap, k = 0 included); the hint applies to that backoff
\* only and is not reused for later backoffs or for transport failures.
C4_HintVerbatim ==
    /\ (IntegerHint /\ FitsU64(HintValue(response.v.retry_after.v)))
          => /\ pc = "sleeping"
             /\ Widen(backoff.v) = HintValue(response.v.retry_after.v)
    /\ NoHintCarriedOver

\* the third attempt (index 2) answered 429 with Retry-After: 120: a 120 s sleep
C4_Witness ==
    /\ pc = "sleeping"
    /\ attempt = U32(2)
    /\ GotResponse
    /\ response.v.retry_after = Some(<<"1", "2", "0">>)
    /\ backoff = Some(U64(120))

\* C5: a 204 response makes the call return Ok(None) at once: the body is not
\* read, no backoff is started and no error is produced.
C5_EmptySuccess ==
    (GotResponse /\ response.v.status = 204)
       => pc = "returned" /\ result = Some(Ok(None))

\* a 204 received on the second attempt (after one backoff), with a JSON body
C5_Witness ==
    /\ GotResponse
    /\ response.v.status = 204
    /\ response.v.body.kind = "json"
    /\ attempt = U32(1)
    /\ sleeps = 1
    /\ result = Some(Ok(None))

-----------------------------------------------------------------------------
(* Properties of paginate_cursor, checked under SpecPag *)

\* a field of a page body as the server wrote it (map form or sequence form)
PageField(data, name, index) ==
    IF data.t = "obj" THEN JIndex(data, name)
    ELSE IF data.t = "arr" /\ Len(data.a) >= index THEN data.a[index]
    ELSE JNull

\* the page says hasMore=false or nextCursor=null
LastPage(data) ==
    \/ PageField(data, "hasMore", 3).t = "bool" /\ ~PageField(data, "hasMore", 3).b
    \/ PageField(data, "nextCursor", 2).t = "null"

PageItems(data) ==
    [i \in 1..Len(PageField(data, "items", 1).a) |-> PageField(data, "items", 1).a[i].n]

\* the GET returned a body / a body that decodes as a page
GetGaveBody(r) == r.ok /\ r.v.some
GetGavePage(r) == GetGaveBody(r) /\ FromValue(r.v.v).some

\* the paginator is about to handle the result of its GET
GetReturned == pag_pc = "awaiting" /\ pc = "returned"

\* C6 as claimed: paginate_cursor has terminated only if its last GET returned
\* a page with hasMore=false or nextCursor=null.
C6_TerminatesOnlyOnLastPage ==
    pag_pc = "returned" => (GetGaveBody(result.v) /\ LastPage(result.v.v.v))

\* what ends the traversal: an error of the GET, an empty (204) success, a body
\* that does not decode as a page, or a page with hasMore=false or nextCursor=null
EndsTraversal(r) == ~GetGavePage(r) \/ LastPage(r.v.v)

\* C6 (amended): paginate_cursor returns when, and only when, one of its GETs
\* ends in a page with hasMore=false or nextCursor=null, in an empty (204)
\* response, or in an error (an APIError of the GET or an undecodable page);
\* after any other page it issues the next GET.
C6_TerminatesIff ==
    [][GetReturned => /\ (pag_pc' = "returned") <=> EndsTraversal(result.v)
                      /\ (pag_pc' # "returned") => Len(gets') = Len(gets) + 1]_vars

\* the traversal ended, after one page, on a 204 response
C6_Witness ==
    /\ pag_pc = "returned"
    /\ pages = 1
    /\ Len(gets) = 2
    /\ result = Some(Ok(None))
    /\ pag_result.v.ok

\* C7: one GET call is issued per page (the GET calls issued are the pages
\* decoded, plus the one outstanding or the one that ended the traversal
\* without a page), and the first page with hasMore=false or nextCursor=null
\* ends the traversal: its items close the result and no GET follows it.
C7_OneGetPerPage ==
    /\ [](/\ pag_pc = "awaiting" => Len(gets) = pages + 1
          /\ pag_pc = "returned" =>
               Len(gets) = pages + (IF GetGavePage(result.v) THEN 0 ELSE 1))
    /\ [][(GetReturned /\ GetGavePage(result.v) /\ LastPage(result.v.v.v))
            => /\ pag_pc' = "returned"
               /\ gets' = gets
               /\ pages' = Len(gets)
               /\ pag_result' = Some(Ok(all_items \o PageItems(result.v.v.v)))]_vars
    /\ [][pag_pc = "returned" => gets' = gets]_vars

\* scenario S6: two pages, the second with nextCursor=null and hasMore=false
C7_Witness ==
    /\ pag_pc = "returned"
    /\ Len(gets) = 2
    /\ pages = 2
    /\ GetGavePage(result.v)
    /\ ~FromValue(result.v.v.v).v.has_more
    /\ ~FromValue(result.v.v.v).v.next_cursor.some
    /\ pag_result = Some(Ok(<<1, 2, 3>>))

\* the path the claim expects for a GET after the first
ExpectedPath(path, c) ==
    path \o (IF \E i \in 1..Len(path) : path[i] = "?" THEN <<"&">> ELSE <<"?">>)
         \o <<"c", "u", "r", "s", "o", "r", "=">> \o c

\* C8: the first GET requests path itself; every later GET requests the
\* original path followed by "&cursor=<c>" when path contains '?' and by
\* "?cursor=<c>" otherwise, c being the nextCursor of the page just decoded;
\* that path, after the base URL, is what is sent.
C8_CursorQuery ==
    [][gets' # gets =>
         /\ IF gets = <<>>
            THEN gets' = <<pag_path'>>
            ELSE /\ GetGavePage(result.v)
                 /\ PageField(result.v.v.v, "nextCursor", 2).t = "str"
                 /\ gets' = Append(gets,
                        ExpectedPath(pag_path, PageField(result.v.v.v, "nextCursor", 2).s))
         /\ inflight'.some
         /\ inflight'.v.url = base_url \o gets'[Len(gets')]]_vars

\* three GETs on a path with a query string: cursors c1, then c2
C8_Witness ==
    /\ Len(gets) = 3
    /\ pag_path = Path2
    /\ gets[1] = Path2
    /\ gets[2] = <<"/", "a", "?", "q", "&", "c", "u", "r", "s", "o", "r", "=", "c", "1">>
    /\ gets[3] = <<"/", "a", "?", "q", "&", "c", "u", "r", "s", "o", "r", "=", "c", "2">>

-----------------------------------------------------------------------------
(* Specification of the construction of a Client and its first request *)
Url0 == <<"h">>
Url2 == <<"h", "/", "/">>
Token2 == <<"t", NonAscii>>
Agent1 == <<"u", "a">>

CustomHeaderSets ==
    { (<<"X", "-", "T", "r", "a", "c", "e">> :> <<"1">>),
      (H_X_API_KEY :> <<"k", "9">>),
      (<<"A", "U", "T", "H", "O", "R", "I", "Z", "A", "T", "I", "O", "N">> :> <<"B", "a", "s", "i", "c">>),
      (<<"X", "-", "A", "p", "i", "-", "K", "e", "y">> :> <<"a">>) @@ (<<"x", "-", "a", "p", "i", "-", "k", "e", "y">> :> <<"b">>),
      (<<"b", "a", "d", " ", "n", "a", "m", "e">> :> <<"v">>),
      (<<"a", "@", "b">> :> <<"v">>),
      (<<"X", "-", "T", "r", "a", "c", "e">> :> <<"v", NonAscii>>) }


Building == new_pc = "options"

WithApiKey ==
    /\ Building
    /\ \E k \in {Key1, Key2} : options' = with_api_key(options, k)
    /\ UNCHANGED <<overflow_checks, client, new_pc, req_vars, pag_vars>>

WithBearerToken ==
    /\ Building
    /\ \E t \in {Token1, Token2} : options' = with_bearer_token(options, t)
    /\ UNCHANGED <<overflow_checks, client, new_pc, req_vars, pag_vars>>

WithTimeout ==
    /\ Building
    /\ options' = with_timeout(options, 2 * DEFAULT_TIMEOUT_SECS)
    /\ UNCHANGED <<overflow_checks, client, new_pc, req_vars, pag_vars>>

WithMaxRetries ==
    /\ Building
    /\ \E n \in {U32(0), U32Max} : options' = with_max_retries(options, n)
    /\ UNCHANGED <<overflow_checks, client, new_pc, req_vars, pag_vars>>

WithDebug ==
    /\ Building
    /\ options' = with_debug(options, TRUE)
    /\ UNCHANGED <<overflow_checks, client, new_pc, req_vars, pag_vars>>

\* the public fields user_agent and custom_headers are assigned directly
SetUserAgent ==
    /\ Building
    /\ options' = [options EXCEPT !.user_agent = Some(Agent1)]
    /\ UNCHANGED <<overflow_checks, client, new_pc, req_vars, pag_vars>>

SetCustomHeaders ==
    /\ Building
    /\ \E h \in CustomHeaderSets : options' = [options EXCEPT !.custom_headers = Some(h)]
    /\ UNCHANGED <<overflow_checks, client, new_pc, req_vars, pag_vars>>

\* Client::new(options)
New ==
    /\ Building
    /\ \E order \in Orders(IF options.custom_headers.some
                           THEN DOMAIN options.custom_headers.v ELSE {}) :
         LET built == ClientNew(options, order)
         IN  IF built.ok
             THEN client' = Some(built) /\ new_pc' = "built"
             ELSE client' = None /\ new_pc' = "failed"
    /\ UNCHANGED <<overflow_checks, options, req_vars, pag_vars>>

InitNew ==
    /\ overflow_checks \in BOOLEAN
    /\ \E url \in {Url0, Url1, Url2} : options = ClientOptionsNew(url)
    /\ client = None
    /\ new_pc = "options"
    /\ InitRequest
    /\ InitPaginate

NextNew ==
    \/ WithApiKey
    \/ WithBearerToken
    \/ WithTimeout
    \/ WithMaxRetries
    \/ WithDebug
    \/ SetUserAgent
    \/ SetCustomHeaders
    \/ New
    \/ CallGet
    \/ CallPost

SpecNew == InitNew /\ [][NextNew]_vars

-----------------------------------------------------------------------------
(* Properties of parse_error (under Spec) and of Client::new (under SpecNew) *)

\* do_request returned the APIError parsed from a non-2xx response that has an
\* x-request-id header and a JSON body with a requestId member
ErrorWithBothIds ==
    /\ pc = "returned"
    /\ GotErrorStatus
    /\ response.v.x_request_id.some
    /\ response.v.body.kind = "json"
    /\ JGet(response.v.body.v, "requestId").some

BodyId == JGet(response.v.body.v, "requestId").v

\* C9 as claimed: with both an x-request-id header and a body requestId, the
\* APIError's request_id is the body's value.
C9_BodyRequestIdWins ==
    ErrorWithBothIds
       => BodyId.t = "str" /\ result.v.err.request_id = Some(BodyId.s)

\* C9 (amended): with both an x-request-id header and a body requestId, the
\* APIError's request_id is the body's value when that value is a JSON string;
\* when it is anything else (a number, null) the header's value is used.
C9_BodyStringRequestIdWins ==
    ErrorWithBothIds
       => IF BodyId.t = "str"
          THEN result.v.err.request_id = Some(BodyId.s)
          ELSE result.v.err.request_id = ToStr(response.v.x_request_id.v)

\* scenario S5: body requestId "r1", header x-request-id "r2"
C9_Witness ==
    /\ ErrorWithBothIds
    /\ response.v.status = 400
    /\ response.v.x_request_id = Some(R2)
    /\ BodyId = JStr(R1)
    /\ result.v.err.request_id = Some(R1)

\* header names as the transport compares them
LowerName(name) ==
    [i \in 1..Len(name) |->
        IF \E j \in 1..Len(UpperChars) : UpperChars[j] = name[i]
        THEN LowerChars[CHOOSE j \in 1..Len(UpperChars) : UpperChars[j] = name[i]]
        ELSE name[i]]
AuthorizationName == <<"a", "u", "t", "h", "o", "r", "i", "z", "a", "t", "i", "o", "n">>
ApiKeyName == <<"x", "-", "a", "p", "i", "-", "k", "e", "y">>

BothCredentials == options.bearer_token.some /\ options.api_key.some

\* the header set carries Authorization: Bearer <token> and no X-API-Key
BearerOnly(headers) ==
    /\ AuthorizationName \in DOMAIN headers
    /\ headers[AuthorizationName] = <<"B", "e", "a", "r", "e", "r", " ">> \o options.bearer_token.v
    /\ ApiKeyName \notin DOMAIN headers

\* the same of the headers of a request sent (each name with its values)
BearerOnlySent(headers) ==
    /\ AuthorizationName \in DOMAIN headers
    /\ headers[AuthorizationName] = << <<"B", "e", "a", "r", "e", "r", " ">> \o options.bearer_token.v >>
    /\ ApiKeyName \notin DOMAIN headers

\* C10 as claimed: whenever bearer_token and api_key are both set, the default
\* headers of the Client, and every request sent, carry Authorization: Bearer
\* <token> and no X-API-Key.
C10_AuthPrecedenceAnyConfig ==
    (new_pc = "built" /\ BothCredentials)
       => /\ BearerOnly(default_headers)
          /\ inflight.some => BearerOnlySent(inflight.v.headers)

\* custom_headers names neither Authorization nor X-API-Key, in any letter case
NoCustomAuthHeader ==
    options.custom_headers.some =>
        \A name \in DOMAIN options.custom_headers.v :
            LowerName(name) \notin {AuthorizationName, ApiKeyName}

\* C10 (amended): whenever bearer_token and api_key are both set and
\* custom_headers does not itself name Authorization or X-API-Key, the default
\* headers of the Client, and every request sent, carry Authorization: Bearer
\* <token> and no X-API-Key.
C10_AuthPrecedence ==
    (new_pc = "built" /\ BothCredentials /\ NoCustomAuthHeader)
       => /\ BearerOnly(default_headers)
          /\ inflight.some => BearerOnlySent(inflight.v.headers)

\* a POST sent by a Client configured with both credentials and a custom header
C10_Witness ==
    /\ new_pc = "built"
    /\ BothCredentials
    /\ options.api_key = Some(Key1)
    /\ options.custom_headers.some
    /\ NoCustomAuthHeader
    /\ inflight.some
    /\ inflight.v.method = POST
    /\ BearerOnlySent(inflight.v.headers)

-----------------------------------------------------------------------------
(* Ordering, outcomes and arithmetic of do_request, checked under Spec *)

\* a step that starts a transport send of the call already running
RetrySend == pc # "idle" /\ pc' = "sending"

\* C11: the attempts of one call are strictly sequential: every send after the
\* first starts from a backoff sleep that was begun after the previous send's
\* outcome was received, one sleep per send; while a send is in flight no
\* outcome is pending and the sends exceed the sleeps by exactly one, so no
\* two sends overlap.
C11_SequentialAttempts ==
    /\ [](pc \in {"sending", "reading", "parsing_error", "returned"}
            => sends = sleeps + 1)
    /\ [](pc = "sleeping" => (sends = sleeps /\ response.some /\ backoff.some))
    /\ [](pc = "sending" => response = None)
    /\ [][RetrySend => /\ pc = "sleeping"
                       /\ response.some /\ backoff.some
                       /\ sends' = sends + 1
                       /\ sleeps' = sleeps]_vars

\* the third send of a call is in flight after two completed sleeps
C11_Witness ==
    /\ pc = "sending"
    /\ sends = 3
    /\ sleeps = 2

-----------------------------------------------------------------------------
(* Errors and result of paginate_cursor, checked under SpecPag *)

\* the GET returned a body that does not decode as a page
GetGaveUndecodable(r) == GetGaveBody(r) /\ ~FromValue(r.v.v).some

\* C12: when a GET of paginate_cursor returns an APIError, paginate_cursor
\* returns that same error; when a page body does not decode, it returns an
\* APIError with code PARSE_ERROR; in both cases no further GET is issued and
\* the value returned is the error alone, carrying none of the items gathered
\* from earlier pages; nothing follows the return.
C12_FirstErrorSurfaces ==
    /\ [][(GetReturned /\ ~result.v.ok)
            => /\ pag_pc' = "returned"
               /\ pag_result' = Some([ok |-> FALSE, err |-> result.v.err])
               /\ gets' = gets]_vars
    /\ [][(GetReturned /\ GetGaveUndecodable(result.v))
            => /\ pag_pc' = "returned"
               /\ ~pag_result'.v.ok
               /\ DOMAIN pag_result'.v = {"ok", "err"}
               /\ pag_result'.v.err.code = Some(PARSE_ERROR)
               /\ gets' = gets]_vars
    /\ [][(pag_pc = "returned" /\ ~pag_result.v.ok)
            => (gets' = gets /\ pag_result' = pag_result)]_vars

\* the second GET failed after a first page with items had been gathered
C12_Witness ==
    /\ pag_pc = "returned"
    /\ pages = 1
    /\ all_items = <<1, 2>>
    /\ Len(gets) = 2
    /\ ~result.v.ok
    /\ pag_result = Some([ok |-> FALSE, err |-> result.v.err])

\* C15: the accumulator starts empty, every decoded page appends exactly its
\* items, in the order the body lists them, and nothing else changes the
\* accumulator; a 204 response adds nothing and ends the traversal; an Ok
\* return delivers the accumulator: the concatenation of the decoded pages'
\* items in fetch order.
C15_ResultIsConcatenation ==
    /\ [][(pag_pc = "idle" /\ pag_pc' = "awaiting") => all_items' = <<>>]_vars
    /\ [][(GetReturned /\ GetGavePage(result.v))
            => /\ all_items' = all_items \o PageItems(result.v.v.v)
               /\ pages' = pages + 1]_vars
    /\ [][~(GetReturned /\ GetGavePage(result.v)) /\ pag_pc # "idle"
            => (all_items' = all_items /\ pages' = pages)]_vars
    /\ [][(GetReturned /\ result.v.ok /\ ~result.v.v.some)
            => (pag_pc' = "returned" /\ gets' = gets)]_vars
    /\ [](pag_pc = "returned" /\ pag_result.v.ok => pag_result.v.v = all_items)

\* three pages were fetched and decoded; the result lists their items in order
C15_Witness ==
    /\ pag_pc = "returned"
    /\ pages = 3
    /\ pag_result = Some([ok |-> TRUE, v |-> <<3, 1, 2, 3>>])

\* the call returned an error that do_request made itself (it has no status),
\* with the given code
ReturnedOwnError(code) ==
    /\ pc = "returned"
    /\ ~result.v.ok
    /\ result.v.err.code = Some(code)
    /\ ~result.v.err.status.some

\* C13: after a transport failure on an attempt a < max_retries the call is in
\* a backoff sleep (from which the next send follows) and has not returned;
\* after a transport failure on attempt a = max_retries the call has returned
\* an APIError with code REQUEST_ERROR and no status; and that error is
\* returned only after a transport failure on attempt a = max_retries.
C13_TransportFailure ==
    /\ (GotTransportError /\ AttemptsRemain(attempt))
          => (pc = "sleeping" /\ backoff.some /\ result = None)
    /\ (GotTransportError /\ ~AttemptsRemain(attempt))
          => ReturnedOwnError(REQUEST_ERROR)
    /\ ReturnedOwnError(REQUEST_ERROR)
          => (GotTransportError /\ attempt = max_retries)

\* C14: do_request never returns the error of the fall-through after the loop
\* (code MAX_RETRIES_EXCEEDED, no status): a call that has returned did so
\* from inside the loop, and the only errors that carry the code
\* MAX_RETRIES_EXCEEDED are those parsed from an error response whose body
\* names that code.
C14_MaxRetriesExceededUnreachable ==
    /\ ~ReturnedOwnError(MAX_RETRIES_EXCEEDED)
    /\ (pc = "returned" /\ ~result.v.ok /\ result.v.err.code = Some(MAX_RETRIES_EXCEEDED))
          => /\ GotErrorStatus
             /\ result.v.err.status = Some(response.v.status)
             /\ ResponseJson(response.v).some
             /\ AsStr(JIndex(ResponseJson(response.v).v, "code")) = Some(MAX_RETRIES_EXCEEDED)
    /\ pc = "returned" => response.some

\* the last permitted attempt (a = max_retries = 1) failed and the call
\* returned from inside the loop
C14_Witness ==
    /\ pc = "returned"
    /\ max_retries = U32(1)
    /\ attempt = max_retries
    /\ sends = 2
    /\ ~result.v.ok
    /\ result.v.err.code = Some(REQUEST_ERROR)

\* C16: once an outstanding call is cancelled, whether its send was in flight,
\* a body was being read or a backoff sleep was pending, nothing of it remains
\* (no request in flight, no received response, no pending sleep) and nothing
\* more happens: no further send, no further sleep, and it never has a result.
C16_CancellationStops ==
    /\ [](pc = "cancelled"
            => (result = None /\ inflight = None /\ response = None /\ backoff = None))
    /\ [][(pc \in SuspensionPoints /\ pc' = "cancelled")
            => (UNCHANGED <<sends, sleeps, result>>)]_vars
    /\ [][pc = "cancelled" => (UNCHANGED <<pc, sends, sleeps, result>>)]_vars

\* a call was cancelled during its second backoff sleep
C16_Witness ==
    /\ pc = "cancelled"
    /\ sends = 2
    /\ sleeps = 2

\* every attempt of the call so far ended in a retryable status, and the
\* current one did too
OnlyRetryableStatuses ==
    GotErrorStatus /\ IsRetryable(response.v.status) /\ ~transport_failed

\* C17: while every attempt receives a retryable status the call goes on, one
\* sleep per failed attempt, until attempt N = max_retries; there it has made
\* exactly N + 1 sends and N sleeps and returns the APIError parsed from that
\* last response, whose status is the response's status.
C17_ExhaustedRetries ==
    /\ (OnlyRetryableStatuses /\ AttemptsRemain(attempt))
          => (pc = "sleeping" /\ sleeps = sends /\ result = None)
    /\ (OnlyRetryableStatuses /\ ~AttemptsRemain(attempt))
          => /\ U32(sends - 1) = max_retries
             /\ sleeps = sends - 1
             /\ pc \in {"parsing_error", "returned"}
             /\ pc = "returned"
                  => /\ ~result.v.ok
                     /\ result.v.err.status = Some(response.v.status)
                     /\ result.v.err = parse_error(response.v)

\* the success response whose body is being, or was, read does not decode
UndecodableSuccess ==
    /\ GotResponse
    /\ IsSuccess(response.v.status) /\ response.v.status # 204
    /\ response.v.body.kind # "json"

\* C18: a 2xx response other than 204 whose body is not JSON ends the call, on
\* whatever attempt it arrives: the step that finds the body undecodable
\* returns an APIError with code PARSE_ERROR and the response's status, with
\* no backoff sleep and no further send, and the call stays returned.
C18_UndecodableSuccessTerminal ==
    /\ [](UndecodableSuccess => pc \in {"reading", "returned"})
    /\ [][(pc = "reading" /\ UndecodableSuccess /\ pc' # "cancelled")
            => /\ pc' = "returned"
               /\ ~result'.v.ok
               /\ result'.v.err.code = Some(PARSE_ERROR)
               /\ result'.v.err.status = Some(response.v.status)
               /\ sends' = sends /\ sleeps' = sleeps /\ backoff' = None]_vars
    /\ [][(pc = "returned" /\ UndecodableSuccess) => (UNCHANGED <<pc, sends, sleeps>>)]_vars

\* the second of four permitted attempts got a 200 with an undecodable body
C18_Witness ==
    /\ pc = "returned"
    /\ UndecodableSuccess
    /\ max_retries = U32(DEFAULT_MAX_RETRIES)
    /\ attempt = U32(1)
    /\ sends = 2
    /\ result.v.err.code = Some(PARSE_ERROR)
    /\ result.v.err.status = Some(200)

\* the name under which the transport carries the idempotency key
IdempotencyKeyName == <<"i", "d", "e", "m", "p", "o", "t", "e", "n", "c", "y", "-", "k", "e", "y">>

\* the call is a post made with / without an idempotency key
PostWithKey == pc # "idle" /\ req.method = POST /\ req.headers.some
PostWithoutKey == pc # "idle" /\ req.method = POST /\ ~req.headers.some

\* the client was configured with a custom header named Idempotency-Key
CustomIdempotencyKey ==
    /\ options.custom_headers.some
    /\ \E n \in DOMAIN options.custom_headers.v : ToLower(n) = IdempotencyKeyName

\* the request sent carries Idempotency-Key once, with value k / not at all
CarriesKey(sent, k) ==
    /\ IdempotencyKeyName \in DOMAIN sent.headers
    /\ sent.headers[IdempotencyKeyName] = <<k>>
    /\ \A n \in DOMAIN sent.headers : ToLower(n) = IdempotencyKeyName => n = IdempotencyKeyName
CarriesNoKey(sent) ==
    \A n \in DOMAIN sent.headers : ToLower(n) # IdempotencyKeyName

\* the request sent has the method, URL and body of the call, Content-Type:
\* application/json exactly when the call has a body, and apart from these
\* and Idempotency-Key nothing but the client's default headers
SameAsCall(sent) ==
    /\ sent.method = req.method
    /\ sent.url = base_url \o req.path
    /\ sent.body = req.body
    /\ req.body.some
          => /\ H_CONTENT_TYPE \in DOMAIN sent.headers
             /\ sent.headers[H_CONTENT_TYPE] = <<APPLICATION_JSON>>
    /\ \A n \in DOMAIN sent.headers :
          \/ n = IdempotencyKeyName
          \/ n = H_CONTENT_TYPE /\ req.body.some
          \/ n \in DOMAIN default_headers /\ sent.headers[n] = <<default_headers[n]>>
    /\ \A n \in DOMAIN default_headers : n \in DOMAIN sent.headers

\* C19 as claimed: every attempt of a call sends the call's request (method,
\* URL, body, extra headers); a post made with an idempotency key carries
\* that key under Idempotency-Key on every attempt, and a post made without
\* one carries no Idempotency-Key on any attempt.
C19_SameRequestAnyClient ==
    (pc = "sending" /\ inflight.some)
       => /\ SameAsCall(inflight.v)
          /\ PostWithKey => CarriesKey(inflight.v, req.headers.v[H_IDEMPOTENCY_KEY])
          /\ PostWithoutKey => CarriesNoKey(inflight.v)

\* C19 (amended): every attempt of a call sends the call's request (method,
\* URL, body, extra headers), and a request is sent on an attempt exactly
\* when the builder accepts the call's headers; a post made with an
\* idempotency key carries that key, and no other, under Idempotency-Key on
\* every attempt; a post made without one carries no Idempotency-Key on any
\* attempt unless the client was configured with a custom header of that
\* name, and then it carries that configured value on every attempt.
C19_SameRequestEveryAttempt ==
    /\ pc = "sending" => (inflight.some <=> BuilderAccepts(req))
    /\ (pc = "sending" /\ inflight.some)
          => /\ SameAsCall(inflight.v)
             /\ PostWithKey => CarriesKey(inflight.v, req.headers.v[H_IDEMPOTENCY_KEY])
             /\ (PostWithoutKey /\ ~CustomIdempotencyKey) => CarriesNoKey(inflight.v)
             /\ (PostWithoutKey /\ CustomIdempotencyKey)
                   => CarriesKey(inflight.v, default_headers[IdempotencyKeyName])

\* the third attempt of a post made with key k1, by a client configured with
\* a custom Idempotency-Key header, is in flight: it carries k1 and only k1
C19_Witness ==
    /\ pc = "sending"
    /\ sends = 3
    /\ PostWithKey
    /\ CustomIdempotencyKey
    /\ default_headers[IdempotencyKeyName] = Key0
    /\ inflight.v.headers[IdempotencyKeyName] = <<Key1>>

\* C20: at the start of every attempt the values attempt + 1 and
\* max_retries + 1 of the log line fit an unsigned 32-bit integer, and no call
\* stops before its first send.
C20_CounterArithmetic ==
    /\ (pc \notin {"idle", "cancelled"})
          => (~AddSmall(attempt, 1).of /\ ~AddSmall(max_retries, 1).of)
    /\ pc = "panicked" => sends > 0

====
